---- MODULE Spec2Model ----
(***************************************************************************)
(* The FileStore ink! contract of src/lib.rs (a burger shop order ledger): *)
(* storage `orders` / `orders_mapping`, the messages                       *)
(* take_order_and_payment, get_single_order and get_orders, and the        *)
(* pricing functions of Order, FoodItem and BurgerMenu.                    *)
(*                                                                         *)
(* A message runs to completion as one transaction of the host: a panic    *)
(* or an Err return reverts every storage write and event of the call, so  *)
(* each message is one atomic action here.                                 *)
(*                                                                         *)
(* Balance is u128 and FoodItem.amount is u32.  Such values are kept at    *)
(* full width as little-endian sequences of base-10^4 digits without       *)
(* leading zero digits (zero is the empty sequence).                       *)
(***************************************************************************)
EXTENDS Integers, Sequences, FiniteSets

VARIABLES
    orders,          \* FileStore.orders: Vec<(u32, Order)>
    orders_mapping,  \* FileStore.orders_mapping: Mapping<u32, Order>
    events,          \* the Transfer events of the committed calls, in order
    accepted,        \* the arguments of the calls that returned Ok, in order
    last             \* the last message call: its arguments and its outcome

vars == <<orders, orders_mapping, events, accepted, last>>

(***************************************************************************)
(* Bounds of the model.                                                    *)
(***************************************************************************)
MaxOrders == 2       \* take_order_and_payment is called while len < MaxOrders
MaxItems == 3        \* longest list_of_items in the pricing specification

(***************************************************************************)
(* Unsigned integers of any width.                                         *)
(***************************************************************************)
Base == 10^4

Zero == <<>>

BigRest(a) == IF a = <<>> THEN <<>> ELSE Tail(a)

BigDigit(a) == IF a = <<>> THEN 0 ELSE Head(a)

RECURSIVE BigNorm(_)
BigNorm(a) ==
    IF a = <<>> THEN <<>>
    ELSE IF a[Len(a)] = 0 THEN BigNorm(SubSeq(a, 1, Len(a) - 1))
    ELSE a

RECURSIVE BigFromInt(_)
BigFromInt(n) ==
    IF n = 0 THEN <<>> ELSE <<n % Base>> \o BigFromInt(n \div Base)

RECURSIVE BigAddCarry(_, _, _)
BigAddCarry(a, b, c) ==
    IF a = <<>> /\ b = <<>>
    THEN (IF c = 0 THEN <<>> ELSE <<c>>)
    ELSE LET s == BigDigit(a) + BigDigit(b) + c
         IN  <<s % Base>> \o BigAddCarry(BigRest(a), BigRest(b), s \div Base)

BigAdd(a, b) == BigAddCarry(a, b, 0)

\* a - b for a >= b
RECURSIVE BigSubBorrow(_, _, _)
BigSubBorrow(a, b, c) ==
    IF a = <<>> THEN <<>>
    ELSE LET d == BigDigit(a) - BigDigit(b) - c
         IN  IF d < 0
             THEN <<d + Base>> \o BigSubBorrow(BigRest(a), BigRest(b), 1)
             ELSE <<d>> \o BigSubBorrow(BigRest(a), BigRest(b), 0)

BigSub(a, b) == BigNorm(BigSubBorrow(a, b, 0))

\* a * d for one digit d
RECURSIVE BigMulDigit(_, _, _)
BigMulDigit(a, d, c) ==
    IF a = <<>>
    THEN (IF c = 0 THEN <<>> ELSE <<c>>)
    ELSE LET p == Head(a) * d + c
         IN  <<p % Base>> \o BigMulDigit(Tail(a), d, p \div Base)

RECURSIVE BigMul(_, _)
BigMul(a, b) ==
    IF b = <<>> THEN <<>>
    ELSE BigNorm(BigAdd(BigNorm(BigMulDigit(a, Head(b), 0)),
                        <<0>> \o BigMul(a, Tail(b))))

\* a < b
RECURSIVE BigLessFrom(_, _, _)
BigLessFrom(a, b, i) ==
    IF i = 0 THEN FALSE
    ELSE IF a[i] # b[i] THEN a[i] < b[i]
    ELSE BigLessFrom(a, b, i - 1)

BigLess(a, b) ==
    IF Len(a) # Len(b) THEN Len(a) < Len(b) ELSE BigLessFrom(a, b, Len(a))


(***************************************************************************)
(* Integer types of the contract.                                          *)
(***************************************************************************)
TwoPow32 == BigMul(BigFromInt(2^16), BigFromInt(2^16))
                             \* one more than u32::MAX (FoodItem.amount)

TwoPow64 == BigMul(TwoPow32, TwoPow32)

TwoPow128 == BigMul(TwoPow64, TwoPow64)
                             \* one more than u128::MAX (Balance = u128)

U32Max == BigSub(TwoPow32, <<1>>)

IsU128(a) == BigLess(a, TwoPow128)

\* the value of a mathematical integer a in u128 arithmetic
RECURSIVE WrapU128(_)
WrapU128(a) == IF IsU128(a) THEN a ELSE WrapU128(BigSub(a, TwoPow128))

\* u128::wrapping_add
WrappingAdd(a, b) == WrapU128(BigAdd(a, b))

\* u128::wrapping_mul
WrappingMul(a, b) == WrapU128(BigMul(a, b))

CheckedMulWrapping(a, b) == <<WrappingMul(a, b)>>

\* u128::checked_mul: Some(product) as <<product>>, None as <<>>
CheckedMul(a, b) ==
    LET p == BigMul(a, b) IN IF IsU128(p) THEN <<p>> ELSE <<>>

\* `self.orders.len() as u32`: the cast keeps every length below 2^32, and
\* the ledger of the model holds at most MaxOrders + 1 orders
LenAsU32(n) == n

\* `item.amount as u128`: a widening cast, which keeps the value
AmountAsU128(amount) == amount

(***************************************************************************)
(* BurgerMenu, FoodItem, Order and their pricing.                          *)
(***************************************************************************)
BurgerMenu == {"CheeseBurger", "ChickenBurger", "VeggieBurger"}

FoodItem(burger_menu, amount) ==
    [burger_menu |-> burger_menu, amount |-> amount]

BurgerMenuPriceSwapped(kind) ==
    CASE kind = "CheeseBurger" -> BigFromInt(12)
      [] kind = "VeggieBurger" -> BigFromInt(15)
      [] kind = "ChickenBurger" -> BigFromInt(10)

\* BurgerMenu::price
BurgerMenuPrice(kind) ==
    CASE kind = "CheeseBurger" -> BigFromInt(12)
      [] kind = "VeggieBurger" -> BigFromInt(10)
      [] kind = "ChickenBurger" -> BigFromInt(15)

\* FoodItem::price
FoodItemPrice(item) ==
    CASE item.burger_menu = "CheeseBurger" ->
            WrappingMul(BurgerMenuPrice("CheeseBurger"), AmountAsU128(item.amount))
      [] item.burger_menu = "ChickenBurger" ->
            WrappingMul(BurgerMenuPrice("ChickenBurger"), AmountAsU128(item.amount))
      [] item.burger_menu = "VeggieBurger" ->
            WrappingMul(BurgerMenuPrice("VeggieBurger"), AmountAsU128(item.amount))

\* the loop of Order::total_price, entered with the running total
RECURSIVE TotalPriceLoop(_, _)
TotalPriceLoop(list_of_items, total) ==
    IF list_of_items = <<>> THEN total
    ELSE TotalPriceLoop(Tail(list_of_items),
                        WrappingAdd(total, FoodItemPrice(Head(list_of_items))))

\* Order::total_price
TotalPrice(list_of_items) == TotalPriceLoop(list_of_items, Zero)

\* Order::new
OrderNew(list_of_items, customer, id) ==
    [list_of_items |-> list_of_items,
     customer      |-> customer,
     total_price   |-> TotalPrice(list_of_items),
     paid          |-> FALSE,
     order_id      |-> id]

\* BurgerShopError
BurgerShopError == {"PaymentError", "OrderNotCompleted"}

\* `let multiply: Balance = 1_000_000_000_000`
Multiply == BigMul(BigFromInt(1000000), BigFromInt(1000000))

(***************************************************************************)
(* The environment of a call: accounts, attached value, transfer result.   *)
(***************************************************************************)
ContractAccount == "contract"          \* self.env().account_id()

Callers == {"contract", "alice", "bob"}    \* self.env().caller()

TransferResults == {"Ok", "Err"}       \* what self.env().transfer returns

\* Option<T>: None and Some(x)
None == <<>>

Some(x) == <<x>>

(***************************************************************************)
(* The steps of take_order_and_payment.                                    *)
(***************************************************************************)
\* assert!(caller != self.env().account_id(), "You are not the customer!")
CallerIsCustomer(caller) == caller # ContractAccount

AmountsPositiveFirstOnly(list_of_items) ==
    list_of_items = <<>> \/ list_of_items[1].amount # Zero

AmountsPositiveNonEmpty(list_of_items) ==
    /\ list_of_items # <<>>
    /\ \A i \in 1..Len(list_of_items) : list_of_items[i].amount # Zero

\* for item in &list_of_items { assert!(item.amount > 0, ...) }
AmountsPositive(list_of_items) ==
    \A i \in 1..Len(list_of_items) : list_of_items[i].amount # Zero

NextOrderIdFromOne(ords) == LenAsU32(Len(ords)) + 1

\* let id = self.orders.len() as u32
NextOrderId(ords) == LenAsU32(Len(ords))

PaymentMatchesAtLeast(transferred_val, scaled) ==
    ~BigLess(transferred_val, scaled)

\* transferred_val == order.total_price.checked_mul(multiply).expect(..)
PaymentMatches(transferred_val, scaled) == transferred_val = scaled

\* the value argument of self.env().transfer(self.env().account_id(), ..)
TransferValue(order, transferred_val) == order.total_price

TransferSucceededAlways(transfer_result) == TRUE

\* the arm of `match self.env().transfer(..)` that is taken
TransferSucceeded(transfer_result) == transfer_result = "Ok"

MarkPaidForgotten(order) == order

\* order.paid = true
MarkPaid(order) == [order EXCEPT !.paid = TRUE]

TransferEventSwapped(order) ==
    [from  |-> <<ContractAccount>>,
     to    |-> <<order.customer>>,
     value |-> order.total_price]

\* the Transfer event of a paid order
TransferEvent(order) ==
    [from  |-> Some(order.customer),
     to    |-> Some(ContractAccount),
     value |-> order.total_price]

MappingInsertSkipped(mapping, id, order) == mapping

\* self.orders_mapping.insert(id, &order)
MappingInsert(mapping, id, order) ==
    [k \in (DOMAIN mapping) \cup {id} |-> IF k = id THEN order ELSE mapping[k]]

VecPushOverwrite(ords, id, order) ==
    IF ords = <<>> THEN <<<<id, order>>>>
    ELSE [ords EXCEPT ![Len(ords)] = <<id, order>>]

\* self.orders.push((id, order.clone()))
VecPush(ords, id, order) == Append(ords, <<id, order>>)

MappingGetFirst(mapping, id) ==
    IF DOMAIN mapping = {} THEN None ELSE Some(mapping[0])

\* self.orders_mapping.get(id)
MappingGet(mapping, id) ==
    IF id \in DOMAIN mapping THEN Some(mapping[id]) ELSE None

(***************************************************************************)
(* The record of a message call.                                           *)
(***************************************************************************)
NoCall ==
    [op                |-> "new",
     caller            |-> "",
     list_of_items     |-> <<>>,
     transferred_value |-> Zero,
     transfer_result   |-> "",
     id                |-> 0,
     total_price       |-> None,    \* order.total_price, once it is computed
     status            |-> "ok",    \* "ok", "err" (Err returned) or "panic"
     error             |-> "",      \* the BurgerShopError returned
     msg               |-> "",      \* the message of the panic
     msg_arg           |-> None,    \* the value formatted into the message
     transfer          |-> None,    \* the transfer attempted: Some([to, value])
     ret_order         |-> None,    \* the Order returned
     ret_orders        |-> None]    \* what get_orders returned

\* the call panics: the host reverts it
Panics(call, msg, arg) ==
    /\ last' = [call EXCEPT !.status = "panic", !.msg = msg, !.msg_arg = arg]
    /\ UNCHANGED <<orders, orders_mapping, events, accepted>>

(***************************************************************************)
(* The messages of FileStore.                                              *)
(***************************************************************************)
\* FileStore::new
Init ==
    /\ orders = <<>>
    /\ orders_mapping = [k \in {} |-> NoCall]
    /\ events = <<>>
    /\ accepted = <<>>
    /\ last = NoCall

\* take_order_and_payment from the transfer on: the order passed both
\* payment asserts
TransferAndRecord(call, transferred_val, transfer_result, attempt, paid_id, paid_order) ==
    IF TransferSucceeded(transfer_result)
    THEN /\ events' = Append(events, TransferEvent(paid_order))
         /\ orders_mapping' = MappingInsert(orders_mapping, paid_id, paid_order)
         /\ orders' = VecPush(orders, paid_id, paid_order)
         /\ accepted' = Append(accepted,
                               [caller            |-> call.caller,
                                list_of_items     |-> call.list_of_items,
                                transferred_value |-> transferred_val])
         /\ last' = [call EXCEPT !.transfer = Some(attempt),
                                 !.ret_order = Some(paid_order)]
    ELSE /\ last' = [call EXCEPT !.status = "err",
                                 !.error = "PaymentError",
                                 !.transfer = Some(attempt)]
         /\ UNCHANGED <<orders, orders_mapping, events, accepted>>

\* take_order_and_payment from the paid assert on: `order` is the new order
\* and `scaled` is order.total_price.checked_mul(multiply)
PayForOrder(call, order, scaled, transferred_val, transfer_result) ==
    IF order.paid # FALSE
    THEN Panics(call, "Can't pay for an order that is already been paid", None)
    ELSE IF scaled = None
    THEN Panics(call, "Overflow!!!", None)
    ELSE IF ~PaymentMatches(transferred_val, scaled[1])
    THEN Panics(call, "Please pay complete amount which is {}",
                Some(order.total_price))
    ELSE TransferAndRecord(call, transferred_val, transfer_result,
                           [to    |-> ContractAccount,
                            value |-> TransferValue(order, transferred_val)],
                           NextOrderId(orders), MarkPaid(order))

\* the order take_order_and_payment builds: Order::new, then the assignment
\* of order.total_price
BuildOrder(list_of_items, caller, id, total_price) ==
    [OrderNew(list_of_items, caller, id) EXCEPT !.total_price = total_price]

\* take_order_and_payment once the order is built
TakeBuiltOrder(call, order, transferred_val, transfer_result) ==
    PayForOrder([call EXCEPT !.total_price = Some(order.total_price)], order,
                CheckedMul(order.total_price, Multiply),
                transferred_val, transfer_result)

\* FileStore::take_order_and_payment
TakeOrderAndPayment(caller, list_of_items, transferred_val, transfer_result) ==
    LET call == [NoCall EXCEPT !.op = "take_order_and_payment",
                               !.caller = caller,
                               !.list_of_items = list_of_items,
                               !.transferred_value = transferred_val,
                               !.transfer_result = transfer_result]
    IN  IF ~CallerIsCustomer(caller)
        THEN Panics(call, "You are not the customer!", None)
        ELSE IF ~AmountsPositive(list_of_items)
        THEN Panics(call, "Can't take an empty order", None)
        ELSE TakeBuiltOrder(call,
                            BuildOrder(list_of_items, caller,
                                       NextOrderId(orders),
                                       TotalPrice(list_of_items)),
                            transferred_val, transfer_result)

GetSingleOrderTaking(id) ==
    LET call == [NoCall EXCEPT !.op = "get_single_order", !.id = id]
        single_order == MappingGet(orders_mapping, id)
    IN  IF single_order = None
        THEN Panics(call, "Order not found", None)
        ELSE /\ last' = [call EXCEPT !.ret_order = single_order]
             /\ orders_mapping' = [k \in (DOMAIN orders_mapping) \ {id} |->
                                       orders_mapping[k]]
             /\ UNCHANGED <<orders, events, accepted>>

\* FileStore::get_single_order
GetSingleOrder(id) ==
    LET call == [NoCall EXCEPT !.op = "get_single_order", !.id = id]
        single_order == MappingGet(orders_mapping, id)
    IN  IF single_order = None
        THEN Panics(call, "Order not found", None)
        ELSE /\ last' = [call EXCEPT !.ret_order = single_order]
             /\ UNCHANGED <<orders, orders_mapping, events, accepted>>

GetOrdersResultAlwaysSome(get_all_orders) == Some(get_all_orders)

\* the value get_orders returns for the vector `get_all_orders`
GetOrdersResult(get_all_orders) ==
    IF Len(get_all_orders) > 0 THEN Some(get_all_orders) ELSE None

\* FileStore::get_orders
GetOrders ==
    LET call == [NoCall EXCEPT !.op = "get_orders"]
    IN  /\ last' = [call EXCEPT !.ret_orders = GetOrdersResult(orders)]
        /\ UNCHANGED <<orders, orders_mapping, events, accepted>>

(***************************************************************************)
(* The calls made to the contract.                                         *)
(***************************************************************************)
\* the lists of items submitted to the ledger
SampleLists ==
    { <<>>,
      <<FoodItem("CheeseBurger", <<2>>), FoodItem("VeggieBurger", <<1>>)>>,
      <<FoodItem("ChickenBurger", <<1>>)>>,
      <<FoodItem("ChickenBurger", U32Max)>>,
      <<FoodItem("VeggieBurger", Zero)>>,
      <<FoodItem("CheeseBurger", <<1>>), FoodItem("ChickenBurger", Zero)>> }

\* the payment the contract asks for a list (0 when it asks for none)
ExactPayment(list_of_items) ==
    LET scaled == CheckedMul(TotalPrice(list_of_items), Multiply)
    IN  IF scaled = None THEN Zero ELSE scaled[1]

\* the payments attached to a call: exact, one unit over, one unit under
Payments(list_of_items) ==
    LET exact == ExactPayment(list_of_items)
    IN  {exact, BigAdd(exact, <<1>>)}
            \cup (IF exact = Zero THEN {} ELSE {BigSub(exact, <<1>>)})

Submit ==
    /\ Len(orders) < MaxOrders
    /\ \E caller \in Callers, list_of_items \in SampleLists,
          transfer_result \in TransferResults :
          \E transferred_val \in Payments(list_of_items) :
              TakeOrderAndPayment(caller, list_of_items, transferred_val,
                                  transfer_result)

Lookup == \E id \in 0..MaxOrders : GetSingleOrder(id)

Next == Submit \/ Lookup \/ GetOrders

Spec == Init /\ [][Next]_vars

(***************************************************************************)
(* Pricing: the first call on a new ledger, for every list of at most      *)
(* MaxItems items, paid exactly.                                           *)
(***************************************************************************)
Amounts == {Zero, <<1>>, <<2>>, U32Max}

FoodItems == {FoodItem(k, a) : k \in BurgerMenu, a \in Amounts}

ItemLists == UNION {[1..n -> FoodItems] : n \in 0..MaxItems}

PriceOrder ==
    /\ last = NoCall
    /\ \E list_of_items \in ItemLists :
          TakeOrderAndPayment("alice", list_of_items,
                              ExactPayment(list_of_items), "Ok")

NextPrice == PriceOrder

SpecPrice == Init /\ [][NextPrice]_vars

(***************************************************************************)
(* Scaling: the first call on a new ledger, from the computed total on.    *)
(* A total whose product with `multiply` passes u128::MAX takes a list of  *)
(* some 2^52 lines, so here order.total_price itself is the input (any     *)
(* Balance up to about twice the largest that can be scaled) and the list  *)
(* that adds up to it is left out of the call record.                      *)
(***************************************************************************)
U128Max == BigSub(TwoPow128, <<1>>)

\* the largest total whose product with `multiply` is a u128
MaxScalable == SubSeq(U128Max, 4, Len(U128Max))

ScaleTotals ==
    {Zero, <<1>>, <<15>>, <<34>>, TwoPow64, BigSub(MaxScalable, <<1>>), MaxScalable,
     BigAdd(MaxScalable, <<1>>), BigAdd(MaxScalable, <<2>>),
     BigAdd(BigAdd(MaxScalable, MaxScalable), <<1>>)}

\* the payments attached: the product as a u128, one unit more, 0 and u128::MAX
ScalePayments(total_price) ==
    LET low == WrapU128(BigMul(total_price, Multiply))
    IN  {low, WrapU128(BigAdd(low, <<1>>)), Zero, U128Max}

ScaleOrder ==
    /\ last = NoCall
    /\ \E caller \in Callers \ {ContractAccount}, total_price \in ScaleTotals,
          transfer_result \in TransferResults :
          \E transferred_val \in ScalePayments(total_price) :
              TakeBuiltOrder([NoCall EXCEPT
                                  !.op = "take_order_and_payment",
                                  !.caller = caller,
                                  !.transferred_value = transferred_val,
                                  !.transfer_result = transfer_result],
                             BuildOrder(<<>>, caller, NextOrderId(orders),
                                        total_price),
                             transferred_val, transfer_result)

NextScale == ScaleOrder

SpecScale == Init /\ [][NextScale]_vars

(***************************************************************************)
(* What the properties below are stated with.  These definitions do not    *)
(* use the pricing and payment operators of the contract.                  *)
(***************************************************************************)
IsTake(call) == call.op = "take_order_and_payment"

IsGet(call) == call.op = "get_single_order"

\* 2^128 written out in base 10^4, lowest digit first
RefTwoPow128 == <<1456, 6821, 4317, 4607, 6337, 4634, 938, 6692, 2823, 340>>

RECURSIVE RefMod(_)
RefMod(a) ==
    IF BigLess(a, RefTwoPow128) THEN a ELSE RefMod(BigSub(a, RefTwoPow128))

\* the quantities of the lines of one kind, added up
RECURSIVE RefQuantity(_, _)
RefQuantity(list, kind) ==
    IF list = <<>> THEN Zero
    ELSE BigAdd(IF Head(list).burger_menu = kind THEN Head(list).amount ELSE Zero,
                RefQuantity(Tail(list), kind))

\* 12 per CheeseBurger, 15 per ChickenBurger, 10 per VeggieBurger, mod 2^128
RefTotal(list) ==
    RefMod(BigAdd(BigMulDigit(RefQuantity(list, "CheeseBurger"), 12, 0),
           BigAdd(BigMulDigit(RefQuantity(list, "ChickenBurger"), 15, 0),
                  BigMulDigit(RefQuantity(list, "VeggieBurger"), 10, 0))))

\* a * 10^12: three digits of base 10^4 further up
RefScaled(a) == IF a = Zero THEN Zero ELSE <<0, 0, 0>> \o a

\* the payment that matches a list: totalPrice * 10^12
RefPayment(list) == RefScaled(RefTotal(list))

RefUnitPrice(kind) ==
    IF kind = "CheeseBurger" THEN 12
    ELSE IF kind = "ChickenBurger" THEN 15 ELSE 10

\* the total of a list of one-digit quantities, in plain integers
RECURSIVE RefIntTotal(_)
RefIntTotal(list) ==
    IF list = <<>> THEN 0
    ELSE RefUnitPrice(Head(list).burger_menu) * BigDigit(Head(list).amount)
             + RefIntTotal(Tail(list))

RefSmall(list) == \A i \in 1..Len(list) : Len(list[i].amount) <= 1

RefValidCall(call) ==
    /\ call.caller # ContractAccount
    /\ \A i \in 1..Len(call.list_of_items) :
           call.list_of_items[i].amount # Zero

LedgerIds == {orders[i][1] : i \in 1..Len(orders)}

LedgerUnchanged == orders' = orders /\ orders_mapping' = orders_mapping

C2_ExactPaymentRecords ==
    [][(/\ IsTake(last')
        /\ RefValidCall(last')
        /\ last'.transferred_value = RefPayment(last'.list_of_items)
        /\ last'.transfer_result = "Ok")
          => /\ last'.status = "ok"
             /\ last'.ret_order # None
             /\ Len(orders') = Len(orders) + 1
             /\ Cardinality(DOMAIN orders_mapping')
                    = Cardinality(DOMAIN orders_mapping) + 1
             /\ last'.ret_order[1].order_id = Len(orders)
             /\ last'.ret_order[1].paid = TRUE
             /\ orders'[Len(orders')] = <<Len(orders), last'.ret_order[1]>>
             /\ Len(orders) \in DOMAIN orders_mapping'
             /\ orders_mapping'[Len(orders)] = last'.ret_order[1]]_vars

\* the second order is accepted and gets id 1
C2_Witness ==
    /\ IsTake(last)
    /\ last.status = "ok"
    /\ last.transferred_value = RefPayment(last.list_of_items)
    /\ Len(orders) = 2
    /\ last.ret_order = Some(orders[2][2])
    /\ orders[2][2].order_id = 1
    /\ orders[2][2].paid

(***************************************************************************)
(* C3.  In every reachable state the two ledger views agree: an id is a    *)
(* key of orders_mapping iff it is in orders, every id is in orders at     *)
(* most once, and the Order under an id is the same in both views.         *)
(***************************************************************************)
C3_ViewsAgree ==
    /\ DOMAIN orders_mapping = LedgerIds
    /\ \A i, j \in 1..Len(orders) : orders[i][1] = orders[j][1] => i = j
    /\ \A i \in 1..Len(orders) :
           /\ orders[i][1] \in DOMAIN orders_mapping
           /\ orders_mapping[orders[i][1]] = orders[i][2]

\* two orders in both views, seen after a lookup that failed
C3_Witness ==
    /\ Len(orders) = 2
    /\ DOMAIN orders_mapping = {0, 1}
    /\ orders_mapping[1] = orders[2][2]
    /\ IsGet(last)
    /\ last.status = "panic"

(***************************************************************************)
(* C4.  Ids are given in submission order and never reused: the n orders   *)
(* of `orders` carry the ids 0, 1, ..., n-1 in that order, each Order's    *)
(* order_id is the id it is stored under, and the k-th order is the one of *)
(* the k-th accepted call.  A take_order_and_payment call that fails       *)
(* (caller error, payment mismatch or transfer failure) adds no order, so  *)
(* the next accepted call gets the id the failed one would have got: an    *)
(* accepted call always gets the id Len(orders) of before the call.        *)
(***************************************************************************)
C4_IdsSequential ==
    /\ [](/\ Len(accepted) = Len(orders)
          /\ \A i \in 1..Len(orders) :
                 /\ orders[i][1] = i - 1
                 /\ orders[i][2].order_id = i - 1
                 /\ orders[i][2].customer = accepted[i].caller
                 /\ orders[i][2].list_of_items = accepted[i].list_of_items)
    /\ [][IsTake(last') =>
            IF last'.status = "ok"
            THEN /\ Len(orders') = Len(orders) + 1
                 /\ SubSeq(orders', 1, Len(orders)) = orders
                 /\ orders'[Len(orders')][1] = Len(orders)
                 /\ last'.ret_order[1].order_id = Len(orders)
            ELSE orders' = orders]_vars

\* a call fails at the transfer after order 0 was taken; id 1 is still free
C4_Witness ==
    /\ IsTake(last)
    /\ last.status = "err"
    /\ Len(orders) = 1
    /\ orders[1][1] = 0
    /\ 1 \notin DOMAIN orders_mapping

(***************************************************************************)
(* C5.  The ledger is append-only and every order in it is paid: a step    *)
(* keeps every (id, Order) pair of `orders` at its position and every      *)
(* entry of orders_mapping, with the same content, and in every reachable  *)
(* state every Order of both views has paid = TRUE.                        *)
(***************************************************************************)
C5_AppendOnlyPaid ==
    /\ [](/\ \A i \in 1..Len(orders) : orders[i][2].paid = TRUE
          /\ \A k \in DOMAIN orders_mapping : orders_mapping[k].paid = TRUE)
    /\ [][/\ Len(orders') >= Len(orders)
          /\ SubSeq(orders', 1, Len(orders)) = orders
          /\ \A k \in DOMAIN orders_mapping :
                 /\ k \in DOMAIN orders_mapping'
                 /\ orders_mapping'[k] = orders_mapping[k]]_vars

\* a second order was appended behind a paid first one
C5_Witness ==
    /\ IsTake(last)
    /\ last.status = "ok"
    /\ Len(orders) = 2
    /\ orders[1][2].paid
    /\ orders[2][2].paid
    /\ orders_mapping[0] = orders[1][2]

(***************************************************************************)
(* C6.  For every list of items with every amount > 0, the total_price of  *)
(* the persisted and returned Order is the sum over the lines of           *)
(* unit price * amount, reduced modulo 2^128, with the unit prices         *)
(* CheeseBurger 12, ChickenBurger 15, VeggieBurger 10; two CheeseBurgers   *)
(* and one VeggieBurger give 34.                                           *)
(***************************************************************************)
C6_TotalPrice ==
    /\ \A i \in 1..Len(orders) :
           LET order == orders[i][2]
           IN  /\ order.total_price = RefTotal(order.list_of_items)
               /\ orders_mapping[orders[i][1]].total_price = order.total_price
               /\ RefSmall(order.list_of_items) =>
                      order.total_price
                          = BigFromInt(RefIntTotal(order.list_of_items))
               /\ order.list_of_items
                      = <<FoodItem("CheeseBurger", <<2>>),
                          FoodItem("VeggieBurger", <<1>>)>>
                      => order.total_price = <<34>>
    /\ (IsTake(last) /\ last.status = "ok") =>
           last.ret_order[1].total_price = RefTotal(last.list_of_items)

\* two CheeseBurgers and one VeggieBurger were priced and stored
C6_Witness ==
    /\ Len(orders) = 1
    /\ orders[1][2].list_of_items
           = <<FoodItem("CheeseBurger", <<2>>), FoodItem("VeggieBurger", <<1>>)>>
    /\ orders[1][2].total_price = <<34>>
    /\ orders[1][2].paid

C8_TransferFailure ==
    [][(/\ IsTake(last')
        /\ RefValidCall(last')
        /\ last'.transferred_value = RefPayment(last'.list_of_items)
        /\ last'.transfer_result = "Err")
          => /\ last'.status = "err"
             /\ last'.error = "PaymentError"
             /\ last'.ret_order = None
             /\ last'.transfer # None
             /\ LedgerUnchanged
             /\ events' = events]_vars

\* the transfer for a priced, exactly paid order fails on a ledger with an order
C8_Witness ==
    /\ IsTake(last)
    /\ RefValidCall(last)
    /\ last.list_of_items # <<>>
    /\ last.transferred_value = RefPayment(last.list_of_items)
    /\ last.transfer_result = "Err"
    /\ last.error = "PaymentError"
    /\ Len(orders) = 1
    /\ Len(events) = 1

(***************************************************************************)
(* C9.  As claimed: on an exact payment match, the amount that             *)
(* take_order_and_payment attempts to transfer into the contract's own     *)
(* account is the attached payment, totalPrice * 10^12, for every order.   *)
(***************************************************************************)
C9_TransfersAttachedPayment ==
    (/\ IsTake(last)
     /\ RefValidCall(last)
     /\ last.transferred_value = RefPayment(last.list_of_items))
        => /\ last.transfer # None
           /\ last.transfer[1].to = ContractAccount
           /\ last.transfer[1].value = last.transferred_value

(***************************************************************************)
(* C10.  take_order_and_payment is rejected with no state change when the  *)
(* caller is the contract's own account or when a line has amount 0: the   *)
(* call aborts, both ledger views are unchanged and no event is emitted,   *)
(* whatever the attached payment.                                          *)
(***************************************************************************)
C10_CallerErrors ==
    [][(/\ IsTake(last')
        /\ \/ last'.caller = ContractAccount
           \/ \E i \in 1..Len(last'.list_of_items) :
                  last'.list_of_items[i].amount = Zero)
          => /\ last'.status = "panic"
             /\ last'.msg = (IF last'.caller = ContractAccount
                             THEN "You are not the customer!"
                             ELSE "Can't take an empty order")
             /\ last'.ret_order = None
             /\ last'.transfer = None
             /\ LedgerUnchanged
             /\ events' = events]_vars

\* a customer's exactly paid list whose second line has amount 0 is rejected
C10_Witness ==
    /\ IsTake(last)
    /\ last.caller # ContractAccount
    /\ Len(last.list_of_items) = 2
    /\ last.list_of_items[1].amount # Zero
    /\ last.list_of_items[2].amount = Zero
    /\ last.transferred_value = RefPayment(last.list_of_items)
    /\ last.status = "panic"
    /\ last.msg = "Can't take an empty order"
    /\ Len(orders) = 1

(***************************************************************************)
(* C11.  get_orders returns None if and only if no take_order_and_payment  *)
(* call was ever accepted; otherwise it returns Some of the whole          *)
(* sequence of (id, Order) pairs, one per accepted call and in their       *)
(* order, so after exactly one accepted call it returns exactly one pair,  *)
(* with id 0.  It never fails, also on an empty ledger.                    *)
(***************************************************************************)
C11_GetOrders ==
    last.op = "get_orders" =>
        /\ last.status = "ok"
        /\ last.ret_orders = None <=> Len(accepted) = 0
        /\ Len(accepted) > 0 =>
               /\ Len(last.ret_orders) = 1
               /\ last.ret_orders[1] = orders
               /\ Len(last.ret_orders[1]) = Len(accepted)
               /\ \A i \in 1..Len(accepted) :
                      /\ last.ret_orders[1][i][1] = i - 1
                      /\ last.ret_orders[1][i][2].customer = accepted[i].caller
                      /\ last.ret_orders[1][i][2].list_of_items
                             = accepted[i].list_of_items
        /\ Len(accepted) = 1 =>
               /\ Len(last.ret_orders[1]) = 1
               /\ last.ret_orders[1][1][1] = 0

\* the list of a ledger that took exactly one order
C11_Witness ==
    /\ last.op = "get_orders"
    /\ Len(accepted) = 1
    /\ last.ret_orders # None
    /\ Len(last.ret_orders[1]) = 1
    /\ last.ret_orders[1][1][1] = 0

(***************************************************************************)
(* C12.  A take_order_and_payment call that is accepted emits exactly one  *)
(* Transfer event, with from = the caller, to = the contract account and   *)
(* value = the order's total_price, and records the order in both views;   *)
(* a call that fails emits no event and records nothing.  So in every      *)
(* reachable state there are as many Transfer events as orders, and the    *)
(* k-th event's from and value are the customer and total_price of the     *)
(* order with id k-1.                                                      *)
(***************************************************************************)
C12_OneEventPerOrder ==
    /\ [](/\ Len(events) = Len(orders)
          /\ Len(events) = Cardinality(DOMAIN orders_mapping)
          /\ \A k \in 1..Len(events) :
                 /\ orders[k][1] = k - 1
                 /\ events[k].from = <<orders[k][2].customer>>
                 /\ events[k].to = <<ContractAccount>>
                 /\ events[k].value = orders[k][2].total_price)
    /\ [][IsTake(last') =>
            IF last'.status = "ok"
            THEN /\ events' = Append(events,
                                     [from  |-> <<last'.caller>>,
                                      to    |-> <<ContractAccount>>,
                                      value |-> RefTotal(last'.list_of_items)])
                 /\ orders' = Append(orders, <<Len(orders), last'.ret_order[1]>>)
                 /\ DOMAIN orders_mapping'
                        = (DOMAIN orders_mapping) \cup {Len(orders)}
                 /\ orders_mapping'[Len(orders)] = last'.ret_order[1]
            ELSE /\ events' = events
                 /\ LedgerUnchanged]_vars

\* the second accepted call, of a priced order, emitted the second event
C12_Witness ==
    /\ IsTake(last)
    /\ last.status = "ok"
    /\ Len(events) = 2
    /\ events[2].from = <<last.caller>>
    /\ events[2].value = RefTotal(last.list_of_items)
    /\ events[2].value # Zero

(***************************************************************************)
(* C13.  take_order_and_payment is the only message that changes anything: *)
(* get_single_order and get_orders, whether they succeed or fail, leave    *)
(* `orders` and orders_mapping unchanged and emit no event.  (They return  *)
(* an owned Order, resp. an owned vector, so what the caller does with the *)
(* returned value is no step of the contract.)                             *)
(***************************************************************************)
C13_ReadsChangeNothing ==
    [][/\ (IsGet(last') \/ last'.op = "get_orders") =>
              /\ LedgerUnchanged
              /\ events' = events
       /\ (orders' # orders \/ orders_mapping' # orders_mapping
               \/ events' # events) => IsTake(last')]_vars

\* an order was looked up and the ledger of two orders is whole
C13_Witness ==
    /\ IsGet(last)
    /\ last.status = "ok"
    /\ last.id = 0
    /\ Len(orders) = 2
    /\ DOMAIN orders_mapping = {0, 1}
    /\ Len(events) = 2

(***************************************************************************)
(* C14.  The product of total_price and 10^12 is overflow-checked:         *)
(* whenever total_price * 10^12 exceeds 2^128 - 1, take_order_and_payment  *)
(* aborts with no state change and no event for every attached payment,    *)
(* so every persisted order has total_price * 10^12 <= 2^128 - 1 and was   *)
(* paid exactly that product.                                              *)
(***************************************************************************)
C14_ScalingChecked ==
    /\ [](\A i \in 1..Len(orders) :
              /\ BigLess(RefScaled(orders[i][2].total_price), RefTwoPow128)
              /\ accepted[i].transferred_value
                     = RefScaled(orders[i][2].total_price))
    /\ [][(/\ IsTake(last')
           /\ last'.total_price # None
           /\ ~BigLess(RefScaled(last'.total_price[1]), RefTwoPow128))
             => /\ last'.status = "panic"
                /\ last'.msg = "Overflow!!!"
                /\ LedgerUnchanged
                /\ events' = events]_vars

\* a total one above the largest that can be scaled, paid the product as a u128
C14_Witness ==
    /\ IsTake(last)
    /\ last.total_price # None
    /\ ~BigLess(RefScaled(last.total_price[1]), RefTwoPow128)
    /\ last.transferred_value
           = BigSub(RefScaled(last.total_price[1]), RefTwoPow128)
    /\ last.transferred_value # Zero
    /\ last.msg = "Overflow!!!"

(***************************************************************************)
(* C15.  The amount assert is per line only: a take_order_and_payment call *)
(* with an empty list of items, from a caller other than the contract,     *)
(* with attached payment 0 and a successful transfer, is accepted and      *)
(* persists a paid Order with no lines and total_price 0 under the next    *)
(* id; an order in the ledger need not hold any item.                      *)
(***************************************************************************)
C15_EmptyOrderAccepted ==
    [][(/\ IsTake(last')
        /\ last'.caller # ContractAccount
        /\ last'.list_of_items = <<>>
        /\ last'.transferred_value = Zero
        /\ last'.transfer_result = "Ok")
          => /\ last'.status = "ok"
             /\ orders' = Append(orders,
                                 <<Len(orders),
                                   [list_of_items |-> <<>>,
                                    customer      |-> last'.caller,
                                    total_price   |-> Zero,
                                    paid          |-> TRUE,
                                    order_id      |-> Len(orders)]>>)
             /\ Len(orders) \in DOMAIN orders_mapping'
             /\ orders_mapping'[Len(orders)] = orders'[Len(orders')][2]
             /\ last'.ret_order = <<orders'[Len(orders')][2]>>]_vars

\* an order without lines is the second order of the ledger
C15_Witness ==
    /\ IsTake(last)
    /\ last.status = "ok"
    /\ Len(orders) = 2
    /\ orders[2][2].list_of_items = <<>>
    /\ orders[2][2].total_price = Zero
    /\ orders[2][2].paid
    /\ orders[2][2].order_id = 1
    /\ orders_mapping[1] = orders[2][2]

====
